---------------------------- MODULE Spec2Model ----------------------------
(***************************************************************************)
(* AutoHub: the rental-booking, purchase and car-listing handlers of the   *)
(* dealership marketplace (bookingapp/views.py, carsapp/views.py) and the *)
(* review of company registrations (companyapp/views.py) over the rows of  *)
(* the entity store.                                                       *)
(*                                                                         *)
(* Every request handler is an operator that gives the response the        *)
(* handler returns in the current state, and an action that applies the    *)
(* handler's writes when that response is a success.                       *)
(***************************************************************************)
EXTENDS Integers, Sequences, FiniteSets, TLC

VARIABLES users, cars, bookings, purchases, registrations, companies,
          inspections, txn

vars == <<users, cars, bookings, purchases, registrations, companies,
         inspections, txn>>

-----------------------------------------------------------------------------
(* Bounds of the model *)

\* days of the calendar the requests may name: 1..MaxDay
MaxDay == 4
\* rows the RentalBooking table may hold
MaxBookings == 2
\* rows the CompanyRegistrationRequest table may hold
MaxRegistrations == 5
\* rows the Car table may hold
MaxCars == 4

-----------------------------------------------------------------------------
(* Values *)

None == "None"

UserIds == {"u1", "u2", "a1", "a2", "sa"}
Dealerships == {"D1", "D2"}
Days == 1..MaxDay

\* a request field holding a date: absent, not in %Y-%m-%d form, or a day
DateInputs == [fmt : {"ymd"}, day : Days] \cup [fmt : {"bad", "missing"}, day : {1}]

\* car ids a request may name: the stored cars and one id without a row
CarRefs == (DOMAIN cars) \cup {Cardinality(DOMAIN cars) + 1}
\* booking ids a request may name: the stored rows and one id without a row
BookingRefs == 1..(Len(bookings) + 1)

Rates == {1, 2}
Prices == {10, 20}

\* the fields of a company registration form
Application(n, e, ph, c, l, f) ==
    [company_name |-> n, company_email |-> e, company_phone |-> ph, company_city |-> c,
     company_license_number |-> l, company_license_document |-> f]
\* the forms of the two dealerships in business, and those of two applicants
ApplicationOf(d) ==
    CASE d = "D1" -> Application("D1", "e1", "p1", "c1", "l1", "f1")
      [] d = "D2" -> Application("D2", "e2", "p2", "c2", "l2", "f2")
      [] d = "D3" -> Application("D3", "e3", "p3", "c3", "l3", "f3")
      [] d = "D4" -> Application("D4", "e4", "p4", "c4", "l4", "f4")
Applicants == {"D3", "D4"}

\* HTTP responses of the handlers: status code, the error of the body, and
\* the booking or car status the error message names (None when it names none)
R(code, kind) == [status |-> code, kind |-> kind, names |-> None]
Ok200 == R(200, "ok")
Created201 == R(201, "created")
NotFound404 == R(404, "not found")
Forbidden403 == R(403, "not authorized")
ServerError500(exc) == R(500, exc)
BadRequest400(kind) == R(400, kind)

\* request workers of the server, and a worker between requests.  A worker
\* holds the request it is handling: the handler's position, the actor, the
\* row the request names, the status it read, the object it is about to
\* write, and the response once it has one.
Workers == {"w1", "w2"}
Idle == [pc |-> "idle", op |-> None, actor |-> None, target |-> 0,
         read |-> None, obj |-> <<>>, resp |-> <<>>]

-----------------------------------------------------------------------------
(* The store after the listings were submitted: two regular users, one      *)
(* admin per dealership, a superadmin; car 1 submitted by u1 to D1, car 2   *)
(* added by a2 as a company-owned car of D2.  Both dealerships are the      *)
(* companies of registration requests the superadmin approved.              *)

\* a CompanyRegistrationRequest row
Registration(form, s, reviewer) ==
    [form |-> form, status |-> s, reviewed_by |-> reviewer]

\* the DealershipCompany row approve creates from the request it read
NewCompany(u, reg) ==
    [name |-> reg.form.company_name, email |-> reg.form.company_email,
     phone |-> reg.form.company_phone, city |-> reg.form.company_city,
     license_number |-> reg.form.company_license_number,
     license_document |-> reg.form.company_license_document,
     is_active |-> TRUE, approved_by |-> u]

Init ==
    /\ users = [u \in UserIds |->
                  CASE u = "a1" -> [role |-> "DEALERSHIP_ADMIN", dealership |-> "D1"]
                    [] u = "a2" -> [role |-> "DEALERSHIP_ADMIN", dealership |-> "D2"]
                    [] u = "sa" -> [role |-> "SUPER_ADMIN", dealership |-> None]
                    [] OTHER    -> [role |-> "USER", dealership |-> None]]
    /\ cars = [c \in {1, 2} |->
                 IF c = 1
                 THEN [dealership |-> "D1", seller |-> "u1", is_company_owned |-> FALSE,
                       status |-> "PENDING", is_for_sale |-> TRUE, is_for_rent |-> TRUE,
                       price |-> 10, rental_price_per_day |-> 1, approved_by |-> None]
                 ELSE [dealership |-> "D2", seller |-> None, is_company_owned |-> TRUE,
                       status |-> "APPROVED", is_for_sale |-> TRUE, is_for_rent |-> TRUE,
                       price |-> 20, rental_price_per_day |-> 2, approved_by |-> None]]
    /\ bookings = <<>>
    /\ purchases = <<>>
    /\ registrations = << Registration(ApplicationOf("D1"), "APPROVED", "sa"),
                          Registration(ApplicationOf("D2"), "APPROVED", "sa") >>
    /\ companies = << NewCompany("sa", Registration(ApplicationOf("D1"), "PENDING", None)),
                      NewCompany("sa", Registration(ApplicationOf("D2"), "PENDING", None)) >>
    /\ inspections = <<>>
    /\ txn = [w \in Workers |-> Idle]


-----------------------------------------------------------------------------
(* Role and dealership of the authenticated actor *)

Role(u) == users[u].role
IsDealershipAdminOf(u, d) == Role(u) = "DEALERSHIP_ADMIN" /\ users[u].dealership = d

-----------------------------------------------------------------------------
(* RentalBookingViewSet: the date filter of create and check_availability   *)

\* columns of RentalBooking
BookingFields ==
    {"id", "car", "user", "start_date", "end_date", "total_price", "status", "created_at"}

\* The three Q objects of the filter, each a conjunction of keyword arguments.
\* A keyword is held as its parts at the ORM's lookup separator "__"; the
\* source spells each keyword with a single underscore before the lookup
\* (start_date_lte), so each has one part.
DateClauses ==
    << << [kw |-> <<"start_date_lte">>, arg |-> "start"], [kw |-> <<"end_date_gt">>, arg |-> "start"] >>,
       << [kw |-> <<"start_date_lt">>, arg |-> "end"],    [kw |-> <<"end_date_gte">>, arg |-> "end"] >>,
       << [kw |-> <<"start_date_gte">>, arg |-> "start"], [kw |-> <<"end_date_lte">>, arg |-> "end"] >> >>

\* The same three Q objects with every keyword read as field "__" lookup
\* (start_date__lte): the filter the comment above it describes.
DateClausesSep ==
    << << [kw |-> <<"start_date", "lte">>, arg |-> "start"], [kw |-> <<"end_date", "gt">>, arg |-> "start"] >>,
       << [kw |-> <<"start_date", "lt">>, arg |-> "end"],    [kw |-> <<"end_date", "gte">>, arg |-> "end"] >>,
       << [kw |-> <<"start_date", "gte">>, arg |-> "start"], [kw |-> <<"end_date", "lte">>, arg |-> "end"] >> >>

\* a keyword resolves when its first part names a column of the model
Resolves(cond) == cond.kw[1] \in BookingFields

\* the comparison a resolved keyword stands for (no lookup part: exact)
Compare(lookup, x, y) ==
    CASE lookup = "lte" -> x <= y
      [] lookup = "lt"  -> x < y
      [] lookup = "gte" -> x >= y
      [] lookup = "gt"  -> x > y
      [] OTHER          -> x = y

CondHolds(cond, row, start, end) ==
    Compare(IF Len(cond.kw) > 1 THEN cond.kw[2] ELSE "exact",
            row[cond.kw[1]],
            IF cond.arg = "start" THEN start ELSE end)

\* the filter without its status__in clause: bookings of every status count
ConflictQueryAnyStatus(K, c, start, end) ==
    IF \E i \in 1..Len(K) : \E j \in 1..Len(K[i]) : ~Resolves(K[i][j])
    THEN [error |-> "FieldError", rows |-> {}]
    ELSE [error |-> None,
          rows |-> {b \in 1..Len(bookings) :
                      /\ bookings[b].car = c
                      /\ \E i \in 1..Len(K) : \A j \in 1..Len(K[i]) :
                            CondHolds(K[i][j], bookings[b], start, end)}]

\* RentalBooking.objects.filter(car=car, status__in=[APPROVED, ACTIVE]).filter(Q | Q | Q):
\* building the query raises FieldError when a keyword does not resolve,
\* otherwise it selects the rows of the car matching one of the clauses.
ConflictQuery(K, c, start, end) ==
    IF \E i \in 1..Len(K) : \E j \in 1..Len(K[i]) : ~Resolves(K[i][j])
    THEN [error |-> "FieldError", rows |-> {}]
    ELSE [error |-> None,
          rows |-> {b \in 1..Len(bookings) :
                      /\ bookings[b].car = c
                      /\ bookings[b].status \in {"APPROVED", "ACTIVE"}
                      /\ \E i \in 1..Len(K) : \A j \in 1..Len(K[i]) :
                            CondHolds(K[i][j], bookings[b], start, end)}]

-----------------------------------------------------------------------------
(* RentalBookingViewSet.create *)

createResp(K, u, c, sd, ed) ==
    IF c = 0 \/ sd.fmt = "missing" \/ ed.fmt = "missing"
    THEN BadRequest400("fields required")
    ELSE IF c \notin DOMAIN cars
    THEN NotFound404
    ELSE IF ~cars[c].is_for_rent \/ cars[c].status # "APPROVED"
    THEN BadRequest400("car not available for rent")
    ELSE IF sd.fmt # "ymd" \/ ed.fmt # "ymd"
    THEN BadRequest400("invalid date format")
    ELSE IF ed.day <= sd.day
    THEN BadRequest400("end date must be after start date")
    ELSE IF ConflictQuery(K, c, sd.day, ed.day).error # None
    THEN ServerError500(ConflictQuery(K, c, sd.day, ed.day).error)
    ELSE IF ConflictQuery(K, c, sd.day, ed.day).rows # {}
    THEN BadRequest400("dates conflict")
    ELSE Created201

\* the filter with PENDING among the statuses that count
AvailabilityQueryWithPending(K, c, start, end) ==
    IF \E i \in 1..Len(K) : \E j \in 1..Len(K[i]) : ~Resolves(K[i][j])
    THEN [error |-> "FieldError", rows |-> {}]
    ELSE [error |-> None,
          rows |-> {b \in 1..Len(bookings) :
                      /\ bookings[b].car = c
                      /\ bookings[b].status \in {"PENDING", "APPROVED", "ACTIVE"}
                      /\ \E i \in 1..Len(K) : \A j \in 1..Len(K[i]) :
                            CondHolds(K[i][j], bookings[b], start, end)}]

\* check_availability's own copy of the filter:
\* RentalBooking.objects.filter(car=car, status__in=[APPROVED, ACTIVE]).filter(Q | Q | Q)
AvailabilityQuery(K, c, start, end) ==
    IF \E i \in 1..Len(K) : \E j \in 1..Len(K[i]) : ~Resolves(K[i][j])
    THEN [error |-> "FieldError", rows |-> {}]
    ELSE [error |-> None,
          rows |-> {b \in 1..Len(bookings) :
                      /\ bookings[b].car = c
                      /\ bookings[b].status \in {"APPROVED", "ACTIVE"}
                      /\ \E i \in 1..Len(K) : \A j \in 1..Len(K[i]) :
                            CondHolds(K[i][j], bookings[b], start, end)}]

\* GET check_availability: the car is looked up before the dates are parsed,
\* and the parsed dates go to the filter as they are
check_availabilityResp(K, c, sd, ed) ==
    IF c = 0 \/ sd.fmt = "missing" \/ ed.fmt = "missing"
    THEN BadRequest400("fields required")
    ELSE IF c \notin DOMAIN cars
    THEN NotFound404
    ELSE IF sd.fmt # "ymd" \/ ed.fmt # "ymd"
    THEN BadRequest400("invalid date format")
    ELSE IF AvailabilityQuery(K, c, sd.day, ed.day).error # None
    THEN ServerError500(AvailabilityQuery(K, c, sd.day, ed.day).error)
    ELSE IF AvailabilityQuery(K, c, sd.day, ed.day).rows # {}
    THEN R(200, "unavailable")
    ELSE R(200, "available")

\* the handler answers and writes nothing
check_availability(K, c, sd, ed) ==
    /\ check_availabilityResp(K, c, sd, ed).status \in {200, 400, 404, 500}
    /\ UNCHANGED vars

\* the row with both the first and the last day charged
NewBookingInclusive(u, c, start, end) ==
    [car |-> c, user |-> u, start_date |-> start, end_date |-> end,
     total_price |-> (end - start + 1) * cars[c].rental_price_per_day,
     status |-> "PENDING"]

\* the row create inserts
NewBooking(u, c, start, end) ==
    [car |-> c, user |-> u, start_date |-> start, end_date |-> end,
     total_price |-> (end - start) * cars[c].rental_price_per_day,
     status |-> "PENDING"]

create(K, u, c, sd, ed) ==
    /\ IF createResp(K, u, c, sd, ed) = Created201
       THEN /\ Len(bookings) < MaxBookings
            /\ bookings' = Append(bookings, NewBooking(u, c, sd.day, ed.day))
       ELSE UNCHANGED bookings
    /\ UNCHANGED <<inspections, registrations, companies, users, cars, purchases, txn>>

-----------------------------------------------------------------------------
(* RentalBookingViewSet: get_queryset and the status transitions *)

\* get_queryset without the dealership filter of the admin branch
BookingQuerysetUnscoped(u) ==
    {b \in 1..Len(bookings) :
        CASE Role(u) \in {"SUPER_ADMIN", "DEALERSHIP_ADMIN"} -> TRUE
          [] OTHER -> bookings[b].user = u}

\* get_queryset: the rows get_object may return to the actor
BookingQueryset(u) ==
    {b \in 1..Len(bookings) :
        CASE Role(u) = "SUPER_ADMIN" -> TRUE
          [] Role(u) = "DEALERSHIP_ADMIN" ->
                cars[bookings[b].car].dealership = users[u].dealership
          [] OTHER -> bookings[b].user = u}

\* the guard letting a SUPER_ADMIN through as well
NotAdminNorSuperOfBooking(u, b) ==
    /\ Role(u) # "SUPER_ADMIN"
    /\ (Role(u) # "DEALERSHIP_ADMIN"
          \/ cars[bookings[b].car].dealership # users[u].dealership)

\* the guard shared by approve, reject, start_rental and complete_rental
NotAdminOfBooking(u, b) ==
    Role(u) # "DEALERSHIP_ADMIN" \/ cars[bookings[b].car].dealership # users[u].dealership

\* an invalid-transition response: 400 and an error message; the f-strings of
\* approve and reject put the current status in the message
InvalidTransition(msg, named) == [status |-> 400, kind |-> msg, names |-> named]

\* approve that looks at the car: a booking of a car that is no longer
\* APPROVED and for rent is refused
approveRespListedCar(u, b) ==
    IF b \notin BookingQueryset(u) THEN NotFound404
    ELSE IF NotAdminOfBooking(u, b) THEN Forbidden403
    ELSE IF bookings[b].status # "PENDING"
    THEN InvalidTransition("Cannot approve a booking with status", bookings[b].status)
    ELSE IF ~cars[bookings[b].car].is_for_rent \/ cars[bookings[b].car].status # "APPROVED"
    THEN BadRequest400("car not available for rent")
    ELSE Ok200

approveResp(u, b) ==
    IF b \notin BookingQueryset(u) THEN NotFound404
    ELSE IF NotAdminOfBooking(u, b) THEN Forbidden403
    ELSE IF bookings[b].status # "PENDING"
    THEN InvalidTransition("Cannot approve a booking with status", bookings[b].status)
    ELSE Ok200

rejectResp(u, b) ==
    IF b \notin BookingQueryset(u) THEN NotFound404
    ELSE IF NotAdminOfBooking(u, b) THEN Forbidden403
    ELSE IF bookings[b].status # "PENDING"
    THEN InvalidTransition("Cannot reject a booking with status", bookings[b].status)
    ELSE Ok200

start_rentalResp(u, b) ==
    IF b \notin BookingQueryset(u) THEN NotFound404
    ELSE IF NotAdminOfBooking(u, b) THEN Forbidden403
    ELSE IF bookings[b].status # "APPROVED"
    THEN InvalidTransition("Can only start rentals with APPROVED status", None)
    ELSE Ok200

complete_rentalResp(u, b) ==
    IF b \notin BookingQueryset(u) THEN NotFound404
    ELSE IF NotAdminOfBooking(u, b) THEN Forbidden403
    ELSE IF bookings[b].status # "ACTIVE"
    THEN InvalidTransition("Can only complete rentals with ACTIVE status", None)
    ELSE Ok200

\* cancel with the status check left out
cancelRespAnyStatus(u, b) ==
    IF b \notin BookingQueryset(u) THEN NotFound404
    ELSE IF bookings[b].user # u /\ Role(u) # "DEALERSHIP_ADMIN" THEN Forbidden403
    ELSE Ok200

cancelResp(u, b) ==
    IF b \notin BookingQueryset(u) THEN NotFound404
    ELSE IF bookings[b].user # u /\ Role(u) # "DEALERSHIP_ADMIN" THEN Forbidden403
    ELSE IF bookings[b].status \notin {"PENDING", "APPROVED"}
    THEN InvalidTransition("Can only cancel PENDING or APPROVED bookings", None)
    ELSE Ok200

\* booking.status = s; booking.save()
SetBookingStatus(resp, b, s) ==
    /\ bookings' = IF resp = Ok200 THEN [bookings EXCEPT ![b].status = s] ELSE bookings
    /\ UNCHANGED <<inspections, registrations, companies, users, cars, purchases, txn>>

TransitionOps == {"approve", "reject", "start_rental", "complete_rental", "cancel"}

TransitionResp(op, u, b) ==
    CASE op = "approve" -> approveResp(u, b)
      [] op = "reject" -> rejectResp(u, b)
      [] op = "start_rental" -> start_rentalResp(u, b)
      [] op = "complete_rental" -> complete_rentalResp(u, b)
      [] op = "cancel" -> cancelResp(u, b)

\* the status the handler assigns before booking.save()
NewStatus(op) ==
    CASE op = "approve" -> "APPROVED"
      [] op = "reject" -> "CANCELLED"
      [] op = "start_rental" -> "ACTIVE"
      [] op = "complete_rental" -> "COMPLETED"
      [] op = "cancel" -> "CANCELLED"

Transition(op, u, b) == SetBookingStatus(TransitionResp(op, u, b), b, NewStatus(op))

\* start_rental that also marks the booked car RENTED
start_rentalMarksRented(u, b) ==
    /\ bookings' = IF start_rentalResp(u, b) = Ok200
                   THEN [bookings EXCEPT ![b].status = "ACTIVE"]
                   ELSE bookings
    /\ cars' = IF start_rentalResp(u, b) = Ok200
               THEN [cars EXCEPT ![bookings[b].car].status = "RENTED"]
               ELSE cars
    /\ UNCHANGED <<inspections, registrations, companies, users, purchases, txn>>

approve(u, b) == Transition("approve", u, b)
reject(u, b) == Transition("reject", u, b)
start_rental(u, b) == Transition("start_rental", u, b)
complete_rental(u, b) == Transition("complete_rental", u, b)
cancel(u, b) == Transition("cancel", u, b)

-----------------------------------------------------------------------------
(* CarViewSet: get_queryset, approve, reject, mark_sold, update_specs *)

\* get_queryset: the cars get_object may return to the (authenticated) actor
CarQueryset(u) ==
    {c \in DOMAIN cars :
        CASE Role(u) = "SUPER_ADMIN" -> TRUE
          [] Role(u) = "DEALERSHIP_ADMIN" -> cars[c].dealership = users[u].dealership
          [] OTHER -> cars[c].status = "APPROVED" \/ cars[c].seller = u}

\* the guard shared by approve, reject and update_specs
NotAdminOfCar(u, c) ==
    Role(u) # "DEALERSHIP_ADMIN" \/ cars[c].dealership # users[u].dealership

\* the dealership field of a submission: absent, a dealership in business,
\* or an id without a row
DealershipInputs == {None, "D1", "D2", "D9"}
\* the is_company_owned field as request.data holds it: absent, a JSON
\* boolean, or the text of a form field
CompanyOwnedInputs == {"absent", "false", "true", "'false'", "'true'"}
\* Python truth of request.data.get('is_company_owned', False): a non-empty
\* string is true, whatever it spells
Truthy(flag) == flag \in {"true", "'false'", "'true'"}

DealershipExists(d) == \E k \in 1..Len(companies) : companies[k].name = d

\* create: the dealership field, then the branch on is_company_owned; the
\* serializer refuses a dealership without a row
car_createResp(u, d, flag) ==
    IF d = None THEN BadRequest400("dealership is required")
    ELSE IF ~Truthy(flag)
    THEN IF DealershipExists(d) THEN Created201 ELSE BadRequest400("invalid")
    ELSE IF Role(u) # "DEALERSHIP_ADMIN" \/ users[u].dealership # d THEN Forbidden403
    ELSE IF DealershipExists(d) THEN Created201 ELSE BadRequest400("invalid")

\* every submission saved as a user's submission
NewCarAlwaysPending(u, d, flag) ==
    [dealership |-> d, seller |-> u, is_company_owned |-> FALSE, status |-> "PENDING",
     is_for_sale |-> TRUE, is_for_rent |-> FALSE, price |-> 10,
     rental_price_per_day |-> 1, approved_by |-> None]

\* serializer.save(seller=request.user, status='PENDING') or
\* serializer.save(is_company_owned=True, status='APPROVED'); the other
\* columns from the body (is_for_sale, is_for_rent at the model's defaults)
NewCar(u, d, flag) ==
    [dealership |-> d,
     seller |-> IF Truthy(flag) THEN None ELSE u,
     is_company_owned |-> Truthy(flag),
     status |-> IF Truthy(flag) THEN "APPROVED" ELSE "PENDING",
     is_for_sale |-> TRUE, is_for_rent |-> FALSE, price |-> 10,
     rental_price_per_day |-> 1, approved_by |-> None]

car_create(u, d, flag) ==
    /\ car_createResp(u, d, flag) = Created201 => Len(cars) < MaxCars
    /\ cars' = IF car_createResp(u, d, flag) = Created201
               THEN Append(cars, NewCar(u, d, flag))
               ELSE cars
    /\ UNCHANGED <<inspections, registrations, companies, users, bookings, purchases, txn>>

\* approve without the test of the car's status
car_approveRespAnyStatus(u, c) ==
    IF c \notin CarQueryset(u) THEN NotFound404
    ELSE IF NotAdminOfCar(u, c) THEN Forbidden403
    ELSE Ok200

car_approveResp(u, c) ==
    IF c \notin CarQueryset(u) THEN NotFound404
    ELSE IF NotAdminOfCar(u, c) THEN Forbidden403
    ELSE IF cars[c].status # "PENDING"
    THEN InvalidTransition("Cannot approve a car with status", cars[c].status)
    ELSE Ok200

\* reject without the test of the status
car_rejectRespAnyStatus(u, c) ==
    IF c \notin CarQueryset(u) THEN NotFound404
    ELSE IF NotAdminOfCar(u, c) THEN Forbidden403
    ELSE Ok200

car_rejectResp(u, c) ==
    IF c \notin CarQueryset(u) THEN NotFound404
    ELSE IF NotAdminOfCar(u, c) THEN Forbidden403
    ELSE IF cars[c].status # "PENDING"
    THEN InvalidTransition("Cannot reject a car with status", cars[c].status)
    ELSE Ok200

mark_soldResp(u, c) ==
    IF c \notin CarQueryset(u) THEN NotFound404
    ELSE IF /\ cars[c].dealership # users[u].dealership
            /\ Role(u) \notin {"DEALERSHIP_ADMIN", "SUPER_ADMIN"}
    THEN Forbidden403
    ELSE Ok200

update_specsResp(u, c) ==
    IF c \notin CarQueryset(u) THEN NotFound404
    ELSE IF NotAdminOfCar(u, c) THEN Forbidden403
    ELSE Ok200

\* car.status = s; car.approved_by = request.user; car.save()
ReviewCar(resp, u, c, s) ==
    /\ cars' = IF resp = Ok200
               THEN [cars EXCEPT ![c].status = s, ![c].approved_by = u]
               ELSE cars
    /\ UNCHANGED <<inspections, registrations, companies, users, bookings, purchases, txn>>

car_approve(u, c) == ReviewCar(car_approveResp(u, c), u, c, "APPROVED")
car_reject(u, c) == ReviewCar(car_rejectResp(u, c), u, c, "REJECTED")

mark_sold(u, c) ==
    /\ cars' = IF mark_soldResp(u, c) = Ok200
               THEN [cars EXCEPT ![c].status = "SOLD",
                                 ![c].is_for_sale = FALSE,
                                 ![c].is_for_rent = FALSE]
               ELSE cars
    /\ UNCHANGED <<inspections, registrations, companies, users, bookings, purchases, txn>>

\* the partial updates a request body may carry (CarSerializer: every field
\* but status, approved_by and approved_at is writable)
SpecPatches ==
    [field : {"price"}, value : Prices]
    \cup [field : {"rental_price_per_day"}, value : Rates]
    \cup [field : {"is_for_sale", "is_for_rent"}, value : BOOLEAN]

update_specs(u, c, patch) ==
    /\ cars' = IF update_specsResp(u, c) = Ok200
               THEN [cars EXCEPT ![c] = [f \in DOMAIN cars[c] |->
                                           IF f = patch.field THEN patch.value ELSE cars[c][f]]]
               ELSE cars
    /\ UNCHANGED <<inspections, registrations, companies, users, bookings, purchases, txn>>

-----------------------------------------------------------------------------
(* PurchaseViewSet: get_queryset, create, mark_paid, mark_failed *)

PurchaseRefs == 1..(Len(purchases) + 1)

\* get_queryset showing every purchase to a dealership admin
PurchaseQuerysetUnscoped(u) ==
    {p \in 1..Len(purchases) :
        CASE Role(u) \in {"SUPER_ADMIN", "DEALERSHIP_ADMIN"} -> TRUE
          [] OTHER -> purchases[p].buyer = u}

PurchaseQueryset(u) ==
    {p \in 1..Len(purchases) :
        CASE Role(u) = "SUPER_ADMIN" -> TRUE
          [] Role(u) = "DEALERSHIP_ADMIN" ->
                cars[purchases[p].car].dealership = users[u].dealership
          [] OTHER -> purchases[p].buyer = u}

\* hasattr(car, 'purchase') and car.purchase: the reverse side of the one-to-one
HasPurchase(c) == \E p \in 1..Len(purchases) : purchases[p].car = c

\* Purchase.car as a plain ForeignKey: any number of rows for a car
PurchaseCarForeignKey(c) == TRUE

\* Purchase.car is a OneToOneField: the table takes no second row for a car
\* (the insert raises IntegrityError)
PurchaseCarUnique(c) == ~HasPurchase(c)

\* the checks without the is_for_sale test
purchase_carRespAnyListing(c) ==
    IF c = 0 THEN BadRequest400("car is required")
    ELSE IF c \notin DOMAIN cars THEN NotFound404
    ELSE IF cars[c].status = "SOLD" THEN BadRequest400("car already sold")
    ELSE IF cars[c].status # "APPROVED"
    THEN BadRequest400("car not available for purchase")
    ELSE Created201

\* the checks of create on the car it read
purchase_carResp(c) ==
    IF c = 0 THEN BadRequest400("car is required")
    ELSE IF c \notin DOMAIN cars THEN NotFound404
    ELSE IF cars[c].status = "SOLD" THEN BadRequest400("car already sold")
    ELSE IF ~cars[c].is_for_sale \/ cars[c].status # "APPROVED"
    THEN BadRequest400("car not available for purchase")
    ELSE Created201

purchase_createResp(u, c) ==
    IF purchase_carResp(c) # Created201 THEN purchase_carResp(c)
    ELSE IF HasPurchase(c) THEN BadRequest400("car already purchased")
    ELSE IF ~PurchaseCarUnique(c) THEN ServerError500("IntegrityError")
    ELSE Created201

\* the row with the car's daily rental rate taken for its price
NewPurchaseRentalRate(u, c, car) ==
    [car |-> c, buyer |-> u, price_at_purchase |-> car.rental_price_per_day,
     payment_status |-> "PENDING"]

\* the row create inserts, from the car object it holds
NewPurchase(u, c, car) ==
    [car |-> c, buyer |-> u, price_at_purchase |-> car.price,
     payment_status |-> "PENDING"]

\* create that also takes the car off the market, as mark_sold does
purchase_createDelisting(u, c) ==
    /\ IF purchase_createResp(u, c) = Created201
       THEN /\ purchases' = Append(purchases, NewPurchase(u, c, cars[c]))
            /\ cars' = [cars EXCEPT ![c].status = "SOLD",
                                    ![c].is_for_sale = FALSE,
                                    ![c].is_for_rent = FALSE]
       ELSE UNCHANGED <<purchases, cars>>
    /\ UNCHANGED <<inspections, registrations, companies, users, bookings, txn>>

purchase_create(u, c) ==
    /\ IF purchase_createResp(u, c) = Created201
       THEN /\ purchases' = Append(purchases, NewPurchase(u, c, cars[c]))
            /\ cars' = [cars EXCEPT ![c].status = "SOLD"]
       ELSE UNCHANGED <<purchases, cars>>
    /\ UNCHANGED <<inspections, registrations, companies, users, bookings, txn>>

\* the guard shared by mark_paid and mark_failed
NotBuyerNorAdmin(u, p) == purchases[p].buyer # u /\ Role(u) # "DEALERSHIP_ADMIN"

\* mark_paid answering 200 again on a purchase that is PAID
mark_paidRespRepeatable(u, p) ==
    IF p \notin PurchaseQueryset(u) THEN NotFound404
    ELSE IF NotBuyerNorAdmin(u, p) THEN Forbidden403
    ELSE Ok200

mark_paidResp(u, p) ==
    IF p \notin PurchaseQueryset(u) THEN NotFound404
    ELSE IF NotBuyerNorAdmin(u, p) THEN Forbidden403
    ELSE IF purchases[p].payment_status = "PAID" THEN BadRequest400("already paid")
    ELSE Ok200

mark_failedResp(u, p) ==
    IF p \notin PurchaseQueryset(u) THEN NotFound404
    ELSE IF NotBuyerNorAdmin(u, p) THEN Forbidden403
    ELSE Ok200

mark_paid(u, p) ==
    /\ purchases' = IF mark_paidResp(u, p) = Ok200
                    THEN [purchases EXCEPT ![p].payment_status = "PAID"]
                    ELSE purchases
    /\ UNCHANGED <<inspections, registrations, companies, users, cars, bookings, txn>>

\* mark_failed that leaves the car as it is
mark_failedKeepCar(u, p) ==
    /\ purchases' = IF mark_failedResp(u, p) = Ok200
                    THEN [purchases EXCEPT ![p].payment_status = "FAILED"]
                    ELSE purchases
    /\ UNCHANGED <<inspections, registrations, companies, users, cars, bookings, txn>>

mark_failed(u, p) ==
    /\ IF mark_failedResp(u, p) = Ok200
       THEN /\ purchases' = [purchases EXCEPT ![p].payment_status = "FAILED"]
            /\ cars' = [cars EXCEPT ![purchases[p].car].status = "APPROVED"]
       ELSE UNCHANGED <<purchases, cars>>
    /\ UNCHANGED <<inspections, registrations, companies, users, bookings, txn>>

-----------------------------------------------------------------------------
(* CompanyRegistrationViewSet.  companyapp/views.py imports                 *)
(* CompanyRegistrationRequest and DealershipCompany from companyapp.models; *)
(* the handlers exist only if that import succeeds.                         *)

\* names bound at the top level of companyapp/models.py: the class statement
\* of DealershipCompany is indented into the body of CompanyRegistrationRequest
ModelsNames == {"CompanyRegistrationRequest"}
\* the names with the class statement of DealershipCompany read at top level
ModelsNamesFlat == {"CompanyRegistrationRequest", "DealershipCompany"}
\* from .models import CompanyRegistrationRequest, DealershipCompany
ViewsImports == {"CompanyRegistrationRequest", "DealershipCompany"}
ImportsResolve(N) == ViewsImports \subseteq N

RegistrationRefs == 1..(Len(registrations) + 1)

\* create: permission AllowAny; the serializer keeps status, reviewed_by and
\* reviewed_at read-only, so the row starts PENDING and unreviewed
registration_createResp(N) ==
    IF ~ImportsResolve(N) THEN ServerError500("ImportError") ELSE Created201

registration_create(N, d) ==
    /\ registration_createResp(N) = Created201 => Len(registrations) < MaxRegistrations
    /\ registrations' = IF registration_createResp(N) = Created201
                        THEN Append(registrations,
                                    Registration(ApplicationOf(d), "PENDING", None))
                        ELSE registrations
    /\ UNCHANGED <<inspections, companies, users, cars, bookings, purchases, txn>>

\* approve that also takes a request that was REJECTED
registration_approveRespReopen(N, u, r) ==
    IF ~ImportsResolve(N) THEN ServerError500("ImportError")
    ELSE IF Role(u) # "SUPER_ADMIN" THEN Forbidden403
    ELSE IF r \notin 1..Len(registrations) THEN NotFound404
    ELSE IF registrations[r].status = "APPROVED"
    THEN InvalidTransition("Cannot approve a request", registrations[r].status)
    ELSE Ok200

\* approve: the role test comes before get_object
registration_approveResp(N, u, r) ==
    IF ~ImportsResolve(N) THEN ServerError500("ImportError")
    ELSE IF Role(u) # "SUPER_ADMIN" THEN Forbidden403
    ELSE IF r \notin 1..Len(registrations) THEN NotFound404
    ELSE IF registrations[r].status # "PENDING"
    THEN InvalidTransition("Cannot approve a request", registrations[r].status)
    ELSE Ok200

registration_rejectResp(N, u, r) ==
    IF ~ImportsResolve(N) THEN ServerError500("ImportError")
    ELSE IF Role(u) # "SUPER_ADMIN" THEN Forbidden403
    ELSE IF r \notin 1..Len(registrations) THEN NotFound404
    ELSE IF registrations[r].status # "PENDING"
    THEN InvalidTransition("Cannot reject a request", registrations[r].status)
    ELSE Ok200

\* the request row with status and reviewed_by as the handler sets them
Reviewed(reg, s, u) == [reg EXCEPT !.status = s, !.reviewed_by = u]

\* the company with the applicant's phone stored as its email
NewCompanyPhoneAsEmail(u, reg) ==
    [name |-> reg.form.company_name, email |-> reg.form.company_phone,
     phone |-> reg.form.company_phone, city |-> reg.form.company_city,
     license_number |-> reg.form.company_license_number,
     license_document |-> reg.form.company_license_document,
     is_active |-> TRUE, approved_by |-> u]

\* the company row approve inserts
ApprovedCompany(u, reg) == NewCompany(u, reg)

registration_approve(N, u, r) ==
    /\ IF registration_approveResp(N, u, r) = Ok200
       THEN /\ companies' = Append(companies, ApprovedCompany(u, registrations[r]))
            /\ registrations' = [registrations EXCEPT
                                    ![r] = Reviewed(registrations[r], "APPROVED", u)]
       ELSE UNCHANGED <<registrations, companies>>
    /\ UNCHANGED <<inspections, users, cars, bookings, purchases, txn>>

registration_reject(N, u, r) ==
    /\ registrations' = IF registration_rejectResp(N, u, r) = Ok200
                        THEN [registrations EXCEPT
                                ![r] = Reviewed(registrations[r], "REJECTED", u)]
                        ELSE registrations
    /\ UNCHANGED <<inspections, companies, users, cars, bookings, purchases, txn>>

-----------------------------------------------------------------------------
(* UserViewSet: update_profile and promote_to_dealership_admin *)

\* the dealership field of a profile update: not in the body, null, a
\* dealership in business, or an id without a row
ProfileDealershipInputs == {"absent", None, "D1", "D2", "D9"}

\* update_profile: UserSerializer(request.user, partial=True); role and
\* is_verified are read-only, dealership is not
update_profileResp(u, d) ==
    IF d \notin {"absent", None} /\ ~DealershipExists(d)
    THEN BadRequest400("invalid")
    ELSE Ok200

update_profile(u, d) ==
    /\ users' = IF update_profileResp(u, d) = Ok200 /\ d # "absent"
                THEN [users EXCEPT ![u].dealership = d]
                ELSE users
    /\ UNCHANGED <<inspections, registrations, companies, cars, bookings, purchases, txn>>

\* user ids a request may name: the stored users and one id without a row
UserRefs == UserIds \cup {"u9"}
\* the dealership_id field of promote: absent, or an id
PromoteDealershipInputs == {None, "D1", "D2", "D9"}

\* promote open to every authenticated actor
promoteRespAnyActor(N, u, target, d) ==
    IF target \notin UserIds THEN NotFound404
    ELSE IF d = None THEN BadRequest400("dealership_id is required")
    ELSE IF "DealershipCompany" \notin N \/ ~DealershipExists(d) THEN NotFound404
    ELSE Ok200

\* promote_to_dealership_admin: the role test, get_object, the dealership_id
\* field, then "from companyapp.models import DealershipCompany" and the
\* lookup inside a try whose bare except answers 404
promoteResp(N, u, target, d) ==
    IF Role(u) # "SUPER_ADMIN" THEN Forbidden403
    ELSE IF target \notin UserIds THEN NotFound404
    ELSE IF d = None THEN BadRequest400("dealership_id is required")
    ELSE IF "DealershipCompany" \notin N \/ ~DealershipExists(d) THEN NotFound404
    ELSE Ok200

promote_to_dealership_admin(N, u, target, d) ==
    /\ users' = IF promoteResp(N, u, target, d) = Ok200
                THEN [users EXCEPT ![target] =
                        [role |-> "DEALERSHIP_ADMIN", dealership |-> d]]
                ELSE users
    /\ UNCHANGED <<inspections, registrations, companies, cars, bookings, purchases, txn>>

-----------------------------------------------------------------------------
(* Car inspections (carsapp/views.py, CarInspectionViewSet).  A car has at  *)
(* most one inspection row.                                                  *)

\* the condition_notes field of a request body: absent, blank, or a text;
\* the field is a TextField without blank=True, so a blank text does not
\* validate
NotesInputs == {"absent", "", "worn"}

InspectionRefs == (DOMAIN inspections) \cup {Len(inspections) + 1}

InspectionQueryset(u) ==
    {i \in DOMAIN inspections :
        CASE Role(u) = "SUPER_ADMIN" -> TRUE
          [] Role(u) = "DEALERSHIP_ADMIN" ->
                cars[inspections[i].car].dealership = users[u].dealership
          [] OTHER -> cars[inspections[i].car].seller = u}

HasInspection(c) == \E i \in DOMAIN inspections : inspections[i].car = c

\* the row get_or_create inserts when the car has none: the defaults of the
\* model's fields
BlankInspection(c) ==
    [car |-> c, inspected_by |-> None, condition_notes |-> "", approved |-> FALSE]

\* CarInspection.objects.get_or_create(car=car)
get_or_create(c) ==
    IF HasInspection(c) THEN inspections ELSE Append(inspections, BlankInspection(c))

\* serializer.is_valid(raise_exception=True) on a partial update
NotesValid(notes) == notes # ""

inspection_createResp(u, c, notes) ==
    IF c = 0 THEN BadRequest400("car_id is required")
    ELSE IF c \notin DOMAIN cars THEN NotFound404
    ELSE IF NotAdminOfCar(u, c) THEN Forbidden403
    ELSE IF ~NotesValid(notes) THEN BadRequest400("invalid")
    ELSE Created201

\* serializer.save(inspected_by=request.user, car=car) on the row of car c
SavedInspection(rows, u, c, notes) ==
    [i \in DOMAIN rows |->
        IF rows[i].car = c
        THEN [rows[i] EXCEPT !.inspected_by = u,
                             !.condition_notes = IF notes = "absent" THEN @ ELSE notes]
        ELSE rows[i]]

\* the handler passes get_or_create before it validates the body
inspection_create(u, c, notes) ==
    /\ inspections' =
          LET resp == inspection_createResp(u, c, notes) IN
          IF resp = Created201 THEN SavedInspection(get_or_create(c), u, c, notes)
          ELSE IF resp = BadRequest400("invalid") THEN get_or_create(c)
          ELSE inspections
    /\ UNCHANGED <<registrations, companies, users, cars, bookings, purchases, txn>>

approve_inspectionResp(u, i) ==
    IF i \notin InspectionQueryset(u) THEN NotFound404
    ELSE IF NotAdminOfCar(u, inspections[i].car) THEN Forbidden403
    ELSE Ok200

approve_inspection(u, i) ==
    /\ inspections' = IF approve_inspectionResp(u, i) = Ok200
                      THEN [inspections EXCEPT ![i].approved = TRUE]
                      ELSE inspections
    /\ UNCHANGED <<registrations, companies, users, cars, bookings, purchases, txn>>

-----------------------------------------------------------------------------
(* Specifications: one request at a time.  The request families take the    *)
(* sets their inputs are drawn from.                                        *)

\* the (start_date, end_date) fields of a request: every pair of days, and
\* pairs with a field absent or not in %Y-%m-%d form
DateRequests ==
    {<<[fmt |-> "ymd", day |-> s], [fmt |-> "ymd", day |-> e]>> : s \in Days, e \in Days}
    \cup {<<[fmt |-> f, day |-> 1], [fmt |-> "ymd", day |-> 1]>> : f \in {"bad", "missing"}}
    \cup {<<[fmt |-> "ymd", day |-> 1], [fmt |-> f, day |-> 1]>> : f \in {"bad", "missing"}}

RatePatches == {patch \in SpecPatches : patch.field = "rental_price_per_day"}

Renters == {"u1", "a2"}
Buyers == {"u2", "a1"}

BookingRequest(K, creators, carrefs, dates, actors) ==
    \/ \E u \in creators : \E c \in carrefs : \E d \in dates :
          create(K, u, c, d[1], d[2])
    \/ \E u \in actors : \E b \in BookingRefs :
          \/ approve(u, b)
          \/ reject(u, b)
          \/ start_rental(u, b)
          \/ complete_rental(u, b)
          \/ cancel(u, b)

CarRequest(actors, patches) ==
    \E u \in actors : \E c \in CarRefs :
        \/ car_approve(u, c)
        \/ car_reject(u, c)
        \/ mark_sold(u, c)
        \/ \E patch \in patches : update_specs(u, c, patch)

PurchaseRequest(buyers, carrefs, actors) ==
    \/ \E u \in buyers : \E c \in carrefs : purchase_create(u, c)
    \/ \E u \in actors : \E p \in PurchaseRefs : mark_paid(u, p) \/ mark_failed(u, p)

\* the booking and car handlers as the source spells the date filter
Next ==
    \/ BookingRequest(DateClauses, UserIds, CarRefs \cup {0}, DateRequests, UserIds)
    \/ CarRequest(UserIds, SpecPatches)
Spec == Init /\ [][Next]_vars

\* the booking workflow with the date filter's keywords read as field lookups
NextSep ==
    \/ BookingRequest(DateClausesSep, Renters, CarRefs \cup {0}, DateRequests, UserIds)
    \/ \E u \in UserIds : \E c \in CarRefs : car_approve(u, c)
SpecSep == Init /\ [][NextSep]_vars

\* one-night and two-night stays, and a range that ends before it starts
ShortStays == {d \in DateRequests : d[1].fmt = "ymd" /\ d[2].fmt = "ymd" /\ d[1].day = 1
                                     /\ d[2].day <= 3}

\* bookings under edits of the daily rate (date filter read as field lookups)
NextRent ==
    \/ BookingRequest(DateClausesSep, {"u1"}, CarRefs, ShortStays, {"u1", "a1", "a2"})
    \/ \E u \in {"a1", "a2"} : \E c \in CarRefs :
          car_approve(u, c) \/ \E patch \in RatePatches : update_specs(u, c, patch)
SpecRent == Init /\ [][NextRent]_vars

Admins == {u \in UserIds : Role(u) = "DEALERSHIP_ADMIN"}

\* the dealership admins acting on the bookings of car 2, the purchase of
\* car 1 and both cars (date filter read as field lookups)
NextAuth ==
    \/ BookingRequest(DateClausesSep, {"u1"}, {2}, ShortStays, Admins \cup {"u1"})
    \/ PurchaseRequest({"u2"}, {1}, Admins \cup {"u2"})
    \/ CarRequest(Admins, {[field |-> "is_for_sale", value |-> TRUE]})
SpecAuth == Init /\ [][NextAuth]_vars

\* purchases and their payments next to car reviews, mark_sold and the
\* bookings of car 2 (date filter read as field lookups)
NextSale ==
    \/ PurchaseRequest(Buyers, CarRefs, UserIds)
    \/ \E u \in Admins : \E c \in CarRefs : car_approve(u, c) \/ mark_sold(u, c)
    \/ \E d \in ShortStays : create(DateClausesSep, "u1", 2, d[1], d[2])
SpecSale == Init /\ [][NextSale]_vars

\* submissions of cars and their review by the dealership admins
NextListing ==
    \/ \E u \in UserIds : \E d \in DealershipInputs : \E flag \in CompanyOwnedInputs :
          car_create(u, d, flag)
    \/ \E u \in Admins : \E c \in CarRefs : car_approve(u, c) \/ car_reject(u, c)
SpecListing == Init /\ [][NextListing]_vars

\* inspections of the cars and the review of the cars
NextInspect ==
    \/ \E u \in UserIds : \E c \in CarRefs \cup {0} : \E notes \in NotesInputs :
          inspection_create(u, c, notes)
    \/ \E u \in UserIds : \E i \in InspectionRefs : approve_inspection(u, i)
    \/ \E u \in Admins : \E c \in CarRefs : car_approve(u, c) \/ car_reject(u, c)
SpecInspect == Init /\ [][NextInspect]_vars

\* profile updates next to the review and the sale of the cars
NextForecourt ==
    \/ \E u \in UserIds : \E d \in ProfileDealershipInputs : update_profile(u, d)
    \/ \E u \in UserIds : \E c \in CarRefs :
          car_approve(u, c) \/ car_reject(u, c) \/ mark_sold(u, c)
SpecForecourt == Init /\ [][NextForecourt]_vars

\* the one-night stay of day 1
OneNight == {d \in ShortStays : d[2].day = 2}

\* bookings and purchases of both cars next to their review and sale (date
\* filter read as field lookups)
NextLot ==
    \/ BookingRequest(DateClausesSep, {"u1"}, CarRefs, OneNight, Admins \cup {"u1"})
    \/ PurchaseRequest({"u2"}, CarRefs, Admins \cup {"u2"})
    \/ \E u \in Admins : \E c \in CarRefs :
          car_approve(u, c) \/ car_reject(u, c) \/ mark_sold(u, c)
SpecLot == Init /\ [][NextLot]_vars

\* the bookings of car 2 while the car is bought, paid for or not, and marked
\* sold (date filter read as field lookups)
NextSoldLot ==
    \/ BookingRequest(DateClausesSep, {"u1"}, {2}, OneNight, {"a2", "u1"})
    \/ PurchaseRequest({"u2"}, {2}, {"u2"})
    \/ mark_sold("a2", 2)
    \/ \E c \in CarRefs \cup {0} : \E d \in DateRequests :
          check_availability(DateClausesSep, c, d[1], d[2])
SpecSoldLot == Init /\ [][NextSoldLot]_vars

UserRequest(N) ==
    \/ \E u \in UserIds : \E d \in ProfileDealershipInputs : update_profile(u, d)
    \/ \E u \in UserIds : \E target \in UserRefs : \E d \in PromoteDealershipInputs :
          promote_to_dealership_admin(N, u, target, d)

\* profile updates and promotions with companyapp/models.py as written:
\* promote's import of DealershipCompany fails inside its try
NextUsersAsWritten == UserRequest(ModelsNames)
SpecUsersAsWritten == Init /\ [][NextUsersAsWritten]_vars

\* profile updates and promotions with DealershipCompany read as a top-level
\* class of companyapp.models
NextUsers == UserRequest(ModelsNamesFlat)
SpecUsers == Init /\ [][NextUsers]_vars

RegistrationRequest(N, applicants, actors) ==
    \/ \E d \in applicants : registration_create(N, d)
    \/ \E u \in actors : \E r \in RegistrationRefs :
          registration_approve(N, u, r) \/ registration_reject(N, u, r)

\* the review of company registrations with the import of
\* companyapp/views.py as written: it names DealershipCompany, which is no
\* top-level name of companyapp.models
NextCompanyAsWritten == RegistrationRequest(ModelsNames, Applicants, UserIds)
SpecCompanyAsWritten == Init /\ [][NextCompanyAsWritten]_vars

\* the review of company registrations with DealershipCompany read as a
\* top-level class of companyapp.models
NextCompany == RegistrationRequest(ModelsNamesFlat, Applicants, UserIds)
SpecCompany == Init /\ [][NextCompany]_vars

-----------------------------------------------------------------------------
(* Requests of two workers, interleaved at their queries.  No handler opens *)
(* a transaction or locks a row: each SELECT, INSERT and UPDATE is a step.  *)

Busy(w) == txn[w].pc \notin {"idle", "done"}

\* a worker that has answered: the response, and for a success the row the
\* request named and the status the handler had read
Done(op, u, target, read, resp) ==
    IF resp.status \in {200, 201}
    THEN [pc |-> "done", op |-> op, actor |-> u, target |-> target,
          read |-> read, obj |-> <<>>, resp |-> <<resp>>]
    ELSE [pc |-> "done", op |-> op, actor |-> None, target |-> 0,
          read |-> None, obj |-> <<>>, resp |-> <<resp>>]

\* booking = self.get_object(), then the handler's guards on the object read
BeginTransition(w, op, u, b) ==
    /\ ~Busy(w)
    /\ txn' = [txn EXCEPT ![w] =
                 IF TransitionResp(op, u, b) = Ok200
                 THEN [pc |-> "save", op |-> op, actor |-> u, target |-> b,
                       read |-> bookings[b].status,
                       obj |-> <<[bookings[b] EXCEPT !.status = NewStatus(op)]>>,
                       resp |-> <<>>]
                 ELSE Done(op, u, b,
                           IF b \in 1..Len(bookings) THEN bookings[b].status ELSE None,
                           TransitionResp(op, u, b))]
    /\ UNCHANGED <<inspections, registrations, companies, users, cars, bookings, purchases>>

\* booking.save(): the row's columns are written from the object in memory
SaveBooking(w) ==
    /\ txn[w].pc = "save"
    /\ bookings' = [bookings EXCEPT ![txn[w].target] = txn[w].obj[1]]
    /\ txn' = [txn EXCEPT ![w] = Done(txn[w].op, txn[w].actor, txn[w].target,
                                      txn[w].read, Ok200)]
    /\ UNCHANGED <<inspections, registrations, companies, users, cars, purchases>>

\* rows stored or about to be inserted
Inserting == {w \in Workers : txn[w].pc = "insert"}

\* create up to conflicts.exists(): the car, the validations, the date filter
BeginCreate(w, K, u, c, sd, ed) ==
    /\ ~Busy(w)
    /\ createResp(K, u, c, sd, ed) = Created201
          => Len(bookings) + Cardinality(Inserting) < MaxBookings
    /\ txn' = [txn EXCEPT ![w] =
                 IF createResp(K, u, c, sd, ed) = Created201
                 THEN [pc |-> "insert", op |-> "create", actor |-> u, target |-> c,
                       read |-> None, obj |-> <<NewBooking(u, c, sd.day, ed.day)>>,
                       resp |-> <<>>]
                 ELSE Done("create", u, c, None, createResp(K, u, c, sd, ed))]
    /\ UNCHANGED <<inspections, registrations, companies, users, cars, bookings, purchases>>

\* RentalBooking.objects.create(...)
InsertBooking(w) ==
    /\ txn[w].pc = "insert"
    /\ bookings' = Append(bookings, txn[w].obj[1])
    /\ txn' = [txn EXCEPT ![w] = Done("create", txn[w].actor, txn[w].target, None,
                                      Created201)]
    /\ UNCHANGED <<inspections, registrations, companies, users, cars, purchases>>

\* PurchaseViewSet.create: car = Car.objects.get(id=car_id) and the checks on it
BeginPurchase(w, u, c) ==
    /\ ~Busy(w)
    /\ txn' = [txn EXCEPT ![w] =
                 IF purchase_carResp(c) = Created201
                 THEN [pc |-> "check", op |-> "purchase", actor |-> u, target |-> c,
                       read |-> cars[c].status, obj |-> <<cars[c]>>, resp |-> <<>>]
                 ELSE Done("purchase", u, c, None, purchase_carResp(c))]
    /\ UNCHANGED <<inspections, registrations, companies, users, cars, bookings, purchases>>

\* hasattr(car, 'purchase') and car.purchase: a query of its own
CheckPurchase(w) ==
    /\ txn[w].pc = "check"
    /\ txn' = [txn EXCEPT ![w] =
                 IF HasPurchase(txn[w].target)
                 THEN Done("purchase", txn[w].actor, txn[w].target, txn[w].read,
                           BadRequest400("car already purchased"))
                 ELSE [txn[w] EXCEPT !.pc = "insert_purchase"]]
    /\ UNCHANGED <<inspections, registrations, companies, users, cars, bookings, purchases>>

\* Purchase.objects.create(...): the insert, refused by the unique car column
InsertPurchase(w) ==
    /\ txn[w].pc = "insert_purchase"
    /\ IF PurchaseCarUnique(txn[w].target)
       THEN /\ purchases' = Append(purchases,
                                   NewPurchase(txn[w].actor, txn[w].target, txn[w].obj[1]))
            /\ txn' = [txn EXCEPT ![w].pc = "save_car"]
       ELSE /\ txn' = [txn EXCEPT ![w] =
                         Done("purchase", txn[w].actor, txn[w].target, txn[w].read,
                              ServerError500("IntegrityError"))]
            /\ UNCHANGED purchases
    /\ UNCHANGED <<inspections, registrations, companies, users, cars, bookings>>

\* car.status = 'SOLD'; car.save(): the car's columns from the object read
SaveCar(w) ==
    /\ txn[w].pc = "save_car"
    /\ cars' = [cars EXCEPT ![txn[w].target] = [txn[w].obj[1] EXCEPT !.status = "SOLD"]]
    /\ txn' = [txn EXCEPT ![w] = Done("purchase", txn[w].actor, txn[w].target,
                                      txn[w].read, Created201)]
    /\ UNCHANGED <<inspections, registrations, companies, users, bookings, purchases>>

\* ranges the interleaved create requests name
RaceDates == {d \in DateRequests : d[1].fmt = "ymd" /\ d[2].fmt = "ymd" /\ d[1].day < d[2].day
                                   /\ d[2].day - d[1].day = 2}

\* interleaved booking requests (date filter read as field lookups)
NextBookingRace ==
    \E w \in Workers :
        \/ \E u \in {"u1"} : \E c \in CarRefs : \E d \in RaceDates :
              BeginCreate(w, DateClausesSep, u, c, d[1], d[2])
        \/ InsertBooking(w)
        \/ \E op \in {"approve", "reject", "cancel"} : \E u \in {"u1", "a2"} :
              \E b \in BookingRefs : BeginTransition(w, op, u, b)
        \/ SaveBooking(w)
SpecBookingRace == Init /\ [][NextBookingRace]_vars

\* interleaved purchase requests, with the payment and sale handlers
NextPurchaseRace ==
    \/ \E w \in Workers :
          \/ \E u \in Buyers : \E c \in CarRefs : BeginPurchase(w, u, c)
          \/ CheckPurchase(w)
          \/ InsertPurchase(w)
          \/ SaveCar(w)
    \/ \E u \in UserIds : \E p \in PurchaseRefs : mark_paid(u, p) \/ mark_failed(u, p)
    \/ \E u \in UserIds : \E c \in CarRefs : mark_sold(u, c)
SpecPurchaseRace == Init /\ [][NextPurchaseRace]_vars

\* the purchase, payment and listing handlers, one request at a time
PricePatches == {patch \in SpecPatches : patch.field \in {"price", "is_for_sale"}}
NextMarket ==
    \/ PurchaseRequest(Buyers, CarRefs \cup {0}, UserIds)
    \/ CarRequest(UserIds, PricePatches)
SpecMarket == Init /\ [][NextMarket]_vars

\* approve or reject up to the status test: the role test, get_object and the
\* test of the status it read
BeginReview(w, N, op, u, r) ==
    LET resp == IF op = "registration_approve"
                THEN registration_approveResp(N, u, r)
                ELSE registration_rejectResp(N, u, r) IN
    /\ ~Busy(w)
    /\ txn' = [txn EXCEPT ![w] =
                 IF resp # Ok200 THEN Done(op, u, r, None, resp)
                 ELSE [pc |-> IF op = "registration_approve"
                              THEN "create_company" ELSE "save_request",
                       op |-> op, actor |-> u, target |-> r,
                       read |-> registrations[r].status,
                       obj |-> <<registrations[r]>>, resp |-> <<>>]]
    /\ UNCHANGED <<inspections, registrations, companies, users, cars, bookings, purchases>>

\* DealershipCompany.objects.create(...) from the request object read
CreateCompany(w) ==
    /\ txn[w].pc = "create_company"
    /\ companies' = Append(companies, ApprovedCompany(txn[w].actor, txn[w].obj[1]))
    /\ txn' = [txn EXCEPT ![w].pc = "save_request"]
    /\ UNCHANGED <<inspections, registrations, users, cars, bookings, purchases>>

\* registration_request.status = ...; reviewed_by = request.user; save()
\* writes every column of the object read
SaveRegistration(w) ==
    /\ txn[w].pc = "save_request"
    /\ registrations' =
          [registrations EXCEPT ![txn[w].target] =
              Reviewed(txn[w].obj[1],
                       IF txn[w].op = "registration_approve" THEN "APPROVED" ELSE "REJECTED",
                       txn[w].actor)]
    /\ txn' = [txn EXCEPT ![w] = Done(txn[w].op, txn[w].actor, txn[w].target,
                                      txn[w].read, Ok200)]
    /\ UNCHANGED <<inspections, companies, users, cars, bookings, purchases>>

\* interleaved reviews of company registrations (DealershipCompany read as a
\* top-level class of companyapp.models)
NextCompanyRace ==
    \/ registration_create(ModelsNamesFlat, "D3")
    \/ \E w \in Workers : \E u \in {"sa", "a1"} : \E r \in RegistrationRefs :
          \E op \in {"registration_approve", "registration_reject"} :
             BeginReview(w, ModelsNamesFlat, op, u, r)
    \/ \E w \in Workers : CreateCompany(w) \/ SaveRegistration(w)
SpecCompanyRace == Init /\ [][NextCompanyRace]_vars

-----------------------------------------------------------------------------
(* Properties *)

Blocking == {"APPROVED", "ACTIVE"}

\* end-exclusive ranges [s1, e1) and [s2, e2) overlap
RangesOverlap(s1, e1, s2, e2) == s1 < e2 /\ s2 < e1

RowsOverlap(b1, b2) ==
    /\ bookings[b1].car = bookings[b2].car
    /\ RangesOverlap(bookings[b1].start_date, bookings[b1].end_date,
                     bookings[b2].start_date, bookings[b2].end_date)

BlockedBy(c, start, end) ==
    \E b \in 1..Len(bookings) :
        /\ bookings[b].car = c
        /\ bookings[b].status \in Blocking
        /\ RangesOverlap(bookings[b].start_date, bookings[b].end_date, start, end)

\* the conflict check with clauses K answers, and reports a conflict exactly
\* when a blocking booking overlaps the candidate range
ConflictIffOverlap(K) ==
    \A c \in DOMAIN cars : \A start \in Days : \A end \in Days :
        start < end =>
            /\ ConflictQuery(K, c, start, end).error = None
            /\ ConflictQuery(K, c, start, end).rows # {} <=> BlockedBy(c, start, end)

\* C2: for every car and every range with start < end, the conflict check of
\* createBooking reports a conflict iff an APPROVED or ACTIVE booking of the
\* car overlaps the range (end-exclusive).
C2_ConflictIffOverlap == ConflictIffOverlap(DateClauses)

\* the same statement of the filter with its keywords read as field lookups
\* (holds under SpecSep)
ConflictIffOverlapSep == ConflictIffOverlap(DateClausesSep)

\* the (action, status before, status after) triples a booking may go through
BookingEdges ==
    {<<"approve", "PENDING", "APPROVED">>, <<"reject", "PENDING", "CANCELLED">>,
     <<"cancel", "PENDING", "CANCELLED">>, <<"start_rental", "APPROVED", "ACTIVE">>,
     <<"cancel", "APPROVED", "CANCELLED">>, <<"complete_rental", "ACTIVE", "COMPLETED">>}

\* C3: a booking's status changes only along PENDING->APPROVED (approve),
\* PENDING->CANCELLED (reject, cancel), APPROVED->ACTIVE (start_rental),
\* APPROVED->CANCELLED (cancel), ACTIVE->COMPLETED (complete_rental); every
\* other (status, action) pair is rejected, and a step changes nothing of a
\* booking but its status, along one of these edges.
C3_BookingTransitions ==
    /\ [](\A op \in TransitionOps : \A u \in UserIds : \A b \in 1..Len(bookings) :
            TransitionResp(op, u, b) = Ok200
               => <<op, bookings[b].status, NewStatus(op)>> \in BookingEdges)
    /\ [][\A b \in 1..Len(bookings) :
            /\ b <= Len(bookings')
            /\ \/ bookings'[b] = bookings[b]
               \/ /\ \E e \in BookingEdges :
                        e[2] = bookings[b].status /\ e[3] = bookings'[b].status
                  /\ bookings'[b] = [bookings[b] EXCEPT !.status = bookings'[b].status]]_vars

\* C3 witness: one booking ran PENDING, APPROVED, ACTIVE to COMPLETED and
\* another was cancelled
C3_TerminalReached ==
    \E b1 \in 1..Len(bookings) : \E b2 \in 1..Len(bookings) :
        bookings[b1].status = "COMPLETED" /\ bookings[b2].status = "CANCELLED"

Succeeded(resp) == resp.status \in {200, 201}

\* admin a has a dealership, and it is not dealership d
OtherDealership(a, d) ==
    Role(a) = "DEALERSHIP_ADMIN" /\ users[a].dealership # None /\ users[a].dealership # d

\* C4: no car approve/reject/mark_sold/update_specs, booking
\* approve/reject/start_rental/complete_rental/cancel or purchase
\* mark_paid/mark_failed issued by a DEALERSHIP_ADMIN of dealership X succeeds on
\* a car, booking or purchase whose car belongs to another dealership Y.
C4_NoCrossDealershipAction ==
    \A a \in UserIds :
        /\ \A c \in DOMAIN cars :
              OtherDealership(a, cars[c].dealership) =>
                 /\ ~Succeeded(car_approveResp(a, c))
                 /\ ~Succeeded(car_rejectResp(a, c))
                 /\ ~Succeeded(mark_soldResp(a, c))
                 /\ ~Succeeded(update_specsResp(a, c))
        /\ \A b \in 1..Len(bookings) :
              OtherDealership(a, cars[bookings[b].car].dealership) =>
                 \A op \in TransitionOps : ~Succeeded(TransitionResp(op, a, b))
        /\ \A p \in 1..Len(purchases) :
              OtherDealership(a, cars[purchases[p].car].dealership) =>
                 /\ ~Succeeded(mark_paidResp(a, p))
                 /\ ~Succeeded(mark_failedResp(a, p))

\* C4 witness: a PENDING booking and a PENDING purchase that their own
\* dealership's admin may cancel and mark paid, and that the other
\* dealership's admin is refused
C4_CrossAdminRefused ==
    \E a \in UserIds : \E own \in UserIds : \E b \in 1..Len(bookings) :
        /\ OtherDealership(a, cars[bookings[b].car].dealership)
        /\ bookings[b].status = "PENDING"
        /\ cancelResp(own, b) = Ok200 /\ Role(own) = "DEALERSHIP_ADMIN"
        /\ cancelResp(a, b) = NotFound404
        /\ \E a2 \in UserIds : \E own2 \in UserIds : \E p \in 1..Len(purchases) :
              /\ OtherDealership(a2, cars[purchases[p].car].dealership)
              /\ purchases[p].payment_status = "PENDING"
              /\ mark_paidResp(own2, p) = Ok200 /\ Role(own2) = "DEALERSHIP_ADMIN"
              /\ mark_paidResp(a2, p) = NotFound404
              /\ mark_soldResp(a2, purchases[p].car) = NotFound404

CreateSucceedsExactlyWhen(K) ==
    \A u \in UserIds : \A c \in CarRefs \cup {0} : \A d \in DateRequests :
        createResp(K, u, c, d[1], d[2]) = Created201
           <=> /\ c \in DOMAIN cars
               /\ cars[c].is_for_rent /\ cars[c].status = "APPROVED"
               /\ d[1].fmt = "ymd" /\ d[2].fmt = "ymd" /\ d[2].day > d[1].day
               /\ ~BlockedBy(c, d[1].day, d[2].day)

\* C7: createBooking succeeds exactly when the car exists, has is_for_rent
\* true and status APPROVED, end > start, and no APPROVED/ACTIVE booking of the
\* car overlaps the range.
C7_CreateSucceedsExactlyWhen == CreateSucceedsExactlyWhen(DateClauses)

\* the same statement of create with the filter's keywords read as field
\* lookups (holds under SpecSep)
CreateSucceedsExactlyWhenSep == CreateSucceedsExactlyWhen(DateClausesSep)

\* C8: a booking is created with total_price = (end - start) * the car's
\* rental_price_per_day at that moment, with end - start >= 1, and no step
\* changes the total_price of a stored booking.
C8_TotalPriceDerivedAndFrozen ==
    [][/\ \A b \in 1..Len(bookings) :
             b <= Len(bookings') /\ bookings'[b].total_price = bookings[b].total_price
       /\ Len(bookings') > Len(bookings) =>
             LET n == bookings'[Len(bookings')] IN
               /\ Len(bookings') = Len(bookings) + 1
               /\ n.end_date - n.start_date >= 1
               /\ n.total_price =
                     (n.end_date - n.start_date) * cars[n.car].rental_price_per_day]_vars

\* C8 witness: a booking that has left PENDING, priced for more than one
\* night at a rate the car no longer has
C8_RateEditedAfterBooking ==
    \E b \in 1..Len(bookings) :
        /\ bookings[b].status # "PENDING"
        /\ bookings[b].end_date - bookings[b].start_date > 1
        /\ bookings[b].total_price #
              (bookings[b].end_date - bookings[b].start_date)
                 * cars[bookings[b].car].rental_price_per_day

\* C9: each car has at most one Purchase row.
C9_OnePurchasePerCar ==
    \A p1 \in 1..Len(purchases) : \A p2 \in 1..Len(purchases) :
        p1 # p2 => purchases[p1].car # purchases[p2].car

\* C9 witness: two interleaved creates for one car, both past the checks on
\* the car: one inserted its row, the other's insert was refused
C9_SecondInsertRefused ==
    \E w \in Workers : \E p \in 1..Len(purchases) :
        /\ txn[w].pc = "done"
        /\ txn[w].resp = <<ServerError500("IntegrityError")>>
        /\ purchases[p].payment_status = "PENDING"

\* C10: createPurchase succeeds exactly when the car exists, is APPROVED, is
\* for sale and has no Purchase (so never on a SOLD car); a step that adds a
\* purchase adds one PENDING row with buyer = requester and price_at_purchase =
\* car.price and sets that car's status to SOLD, and changes nothing else.
C10_CreatePurchase ==
    /\ [](\A u \in UserIds : \A c \in CarRefs \cup {0} :
            /\ purchase_createResp(u, c) = Created201
                  <=> /\ c \in DOMAIN cars
                      /\ cars[c].status = "APPROVED"
                      /\ cars[c].is_for_sale
                      /\ ~HasPurchase(c)
            /\ (c \in DOMAIN cars /\ cars[c].status = "SOLD")
                  => ~Succeeded(purchase_createResp(u, c)))
    /\ [][Len(purchases') > Len(purchases) =>
            \E u \in UserIds : \E c \in DOMAIN cars :
                /\ purchase_createResp(u, c) = Created201
                /\ purchases' = Append(purchases,
                                       [car |-> c, buyer |-> u,
                                        price_at_purchase |-> cars[c].price,
                                        payment_status |-> "PENDING"])
                /\ cars' = [cars EXCEPT ![c].status = "SOLD"]]_vars

\* C10 witness: a car back to APPROVED and for sale after a failed payment,
\* whose purchase row makes a further createPurchase fail
C10_RelistedCarRefused ==
    \E c \in DOMAIN cars : \E u \in UserIds :
        /\ cars[c].status = "APPROVED" /\ cars[c].is_for_sale
        /\ HasPurchase(c)
        /\ purchase_createResp(u, c) = BadRequest400("car already purchased")

\* the actor passes get_object and the buyer-or-admin guard on purchase p
MayUpdatePurchase(u, p) == p \in PurchaseQueryset(u) /\ ~NotBuyerNorAdmin(u, p)

\* C11: mark_paid on a purchase that is already PAID succeeds for nobody, and
\* answers every actor the handler lets through to the purchase with the
\* already-paid error (a 400, with which the handler has written nothing).
C11_AlreadyPaidIsAnError ==
    \A p \in 1..Len(purchases) :
        purchases[p].payment_status = "PAID" =>
            \A u \in UserIds :
                /\ ~Succeeded(mark_paidResp(u, p))
                /\ MayUpdatePurchase(u, p)
                      => mark_paidResp(u, p) = BadRequest400("already paid")

\* C11 witness: a PAID purchase on which its buyer asks mark_paid again
C11_PaidTwice ==
    \E p \in 1..Len(purchases) :
        /\ purchases[p].payment_status = "PAID"
        /\ mark_paidResp(purchases[p].buyer, p) = BadRequest400("already paid")
        /\ cars[purchases[p].car].status = "SOLD"

\* C12: a purchase becomes PAID only from PENDING, and mark_paid does not
\* succeed on a purchase that is FAILED or PAID.
C12_PaidOnlyFromPending ==
    /\ [](\A u \in UserIds : \A p \in 1..Len(purchases) :
            purchases[p].payment_status # "PENDING" => ~Succeeded(mark_paidResp(u, p)))
    /\ [][\A p \in 1..Len(purchases) :
            (purchases[p].payment_status # "PAID" /\ purchases'[p].payment_status = "PAID")
               => purchases[p].payment_status = "PENDING"]_vars

\* C13: a step that marks a purchase FAILED is a successful mark_failed: it
\* sets that purchase's payment_status, sets the status of its car to APPROVED
\* and changes nothing else; and a SOLD car becomes APPROVED in no other step.
C13_MarkFailedRevertsCar ==
    [][/\ \A p \in 1..Len(purchases) :
             (purchases[p].payment_status # "FAILED" /\ purchases'[p].payment_status = "FAILED")
                => /\ \E u \in UserIds : mark_failedResp(u, p) = Ok200
                   /\ purchases' = [purchases EXCEPT ![p].payment_status = "FAILED"]
                   /\ cars' = [cars EXCEPT ![purchases[p].car].status = "APPROVED"]
                   /\ bookings' = bookings /\ users' = users
       /\ \A c \in DOMAIN cars :
             (cars[c].status = "SOLD" /\ cars'[c].status = "APPROVED")
                => \E u \in UserIds : \E p \in 1..Len(purchases) :
                      /\ purchases[p].car = c
                      /\ mark_failedResp(u, p) = Ok200
                      /\ purchases'[p].payment_status = "FAILED"]_vars

\* C13 witness: a failed purchase whose car is APPROVED again, next to a
\* booking and to another purchase whose car is still SOLD
C13_CarRelisted ==
    \E p \in 1..Len(purchases) : \E q \in 1..Len(purchases) :
        /\ purchases[p].payment_status = "FAILED"
        /\ cars[purchases[p].car].status = "APPROVED"
        /\ p # q /\ purchases[q].payment_status = "PENDING"
        /\ cars[purchases[q].car].status = "SOLD"
        /\ Len(bookings) > 0

\* C14: a purchase is created with price_at_purchase = the car's price at
\* that moment, and no step changes the price_at_purchase of a stored purchase.
C14_PriceSnapshot ==
    [][/\ \A p \in 1..Len(purchases) :
             /\ p <= Len(purchases')
             /\ purchases'[p].price_at_purchase = purchases[p].price_at_purchase
       /\ Len(purchases') > Len(purchases) =>
             LET n == purchases'[Len(purchases')] IN
               /\ Len(purchases') = Len(purchases) + 1
               /\ n.price_at_purchase = cars[n.car].price]_vars

\* C14 witness: a purchase, since marked paid or failed, whose car's price was
\* edited after the purchase
C14_PriceEditedAfterPurchase ==
    \E p \in 1..Len(purchases) :
        /\ purchases[p].payment_status # "PENDING"
        /\ purchases[p].price_at_purchase # cars[purchases[p].car].price

\* C15: approve succeeds only for a SUPER_ADMIN on a PENDING request and is
\* refused (403) to every other role; a step that adds a DealershipCompany adds
\* exactly one, with name, email, phone, city and license number of a PENDING
\* request and approved_by = the acting superadmin, and sets that request's
\* status to APPROVED and reviewed_by to the actor; a request turns APPROVED
\* in no other step.
C15_ApproveCreatesCompany ==
    /\ [](\A u \in UserIds : \A r \in RegistrationRefs :
            /\ Succeeded(registration_approveResp(ModelsNamesFlat, u, r))
                  => /\ Role(u) = "SUPER_ADMIN"
                     /\ r <= Len(registrations) /\ registrations[r].status = "PENDING"
            /\ Role(u) # "SUPER_ADMIN"
                  => registration_approveResp(ModelsNamesFlat, u, r) = Forbidden403)
    /\ [][/\ companies' # companies =>
               \E u \in UserIds : \E r \in 1..Len(registrations) :
                  LET co == companies'[Len(companies')] IN
                  /\ Role(u) = "SUPER_ADMIN"
                  /\ registrations[r].status = "PENDING"
                  /\ Len(companies') = Len(companies) + 1
                  /\ SubSeq(companies', 1, Len(companies)) = companies
                  /\ co.name = registrations[r].form.company_name
                  /\ co.email = registrations[r].form.company_email
                  /\ co.phone = registrations[r].form.company_phone
                  /\ co.city = registrations[r].form.company_city
                  /\ co.license_number = registrations[r].form.company_license_number
                  /\ co.approved_by = u
                  /\ registrations' =
                        [registrations EXCEPT ![r].status = "APPROVED", ![r].reviewed_by = u]
          /\ \A r \in 1..Len(registrations) :
               (registrations[r].status # "APPROVED" /\ registrations'[r].status = "APPROVED")
                  => Len(companies') = Len(companies) + 1]_vars

\* C15 witness: the company of applicant D3, approved by the superadmin, and
\* a PENDING request whose approve is refused to a dealership admin
C15_CompanyOfApplicant ==
    \E r \in 1..Len(registrations) : \E k \in 1..Len(companies) : \E q \in 1..Len(registrations) :
        /\ registrations[r].status = "APPROVED" /\ registrations[r].form = ApplicationOf("D3")
        /\ companies[k] = NewCompany("sa", registrations[r])
        /\ registrations[q].status = "PENDING"
        /\ registration_approveResp(ModelsNamesFlat, "a1", q) = Forbidden403
        /\ registration_approveResp(ModelsNamesFlat, "sa", q) = Ok200

\* C16: approve and reject succeed on no request that is APPROVED or
\* REJECTED; a request's status changes only PENDING -> APPROVED or PENDING ->
\* REJECTED; a request that is not PENDING is left as it is, reviewer stamp
\* included, by every step; and a step that rejects a request leaves the
\* companies unchanged.
C16_ReviewIsFinal ==
    /\ [](\A u \in UserIds : \A r \in 1..Len(registrations) :
            registrations[r].status # "PENDING" =>
               /\ ~Succeeded(registration_approveResp(ModelsNamesFlat, u, r))
               /\ ~Succeeded(registration_rejectResp(ModelsNamesFlat, u, r)))
    /\ [][\A r \in 1..Len(registrations) :
            /\ r <= Len(registrations')
            /\ registrations[r].status # "PENDING" => registrations'[r] = registrations[r]
            /\ registrations'[r].status # registrations[r].status
                  => /\ registrations[r].status = "PENDING"
                     /\ registrations'[r].status \in {"APPROVED", "REJECTED"}
            /\ (registrations[r].status # "REJECTED" /\ registrations'[r].status = "REJECTED")
                  => companies' = companies]_vars

\* C16 witness: an applicant's request APPROVED and another REJECTED, on
\* which the superadmin's further approve and reject are refused as invalid
C16_ReviewedRequests ==
    \E r \in 1..Len(registrations) : \E q \in 1..Len(registrations) :
        /\ registrations[r].status = "REJECTED" /\ registrations[r].reviewed_by = "sa"
        /\ registrations[q].status = "APPROVED" /\ registrations[q].form.company_name \in Applicants
        /\ registration_approveResp(ModelsNamesFlat, "sa", r).status = 400
        /\ registration_rejectResp(ModelsNamesFlat, "sa", q).status = 400

\* registration requests with status APPROVED
ApprovedRegistrations == {r \in 1..Len(registrations) : registrations[r].status = "APPROVED"}

C18_CarReview ==
    /\ [](\A u \in UserIds : \A c \in DOMAIN cars :
            (Succeeded(car_approveResp(u, c)) \/ Succeeded(car_rejectResp(u, c)))
               => /\ cars[c].status = "PENDING"
                  /\ IsDealershipAdminOf(u, cars[c].dealership))
    /\ [][\A c \in DOMAIN cars :
            /\ (cars[c].status = "PENDING" /\ cars'[c].status \in {"APPROVED", "REJECTED"})
                  => \E u \in UserIds :
                        /\ IsDealershipAdminOf(u, cars[c].dealership)
                        /\ cars' = [cars EXCEPT ![c].status = cars'[c].status,
                                                ![c].approved_by = u]
            /\ cars'[c].approved_by # cars[c].approved_by
                  => (cars[c].status = "PENDING"
                        /\ cars'[c].status \in {"APPROVED", "REJECTED"})]_vars

\* C18 witness: car 1 rejected by the admin of its dealership, whose further
\* approve is refused as invalid, while the other dealership's admin gets 404
C18_CarRejected ==
    /\ cars[1].status = "REJECTED" /\ cars[1].approved_by = "a1"
    /\ car_approveResp("a1", 1).status = 400
    /\ car_approveResp("a2", 1) = NotFound404
    /\ car_approveResp("sa", 1) = Forbidden403

\* the status changes of a car the listing workflow has
CarEdges ==
    {<<"PENDING", "APPROVED">>, <<"PENDING", "REJECTED">>,
     <<"APPROVED", "SOLD">>, <<"SOLD", "APPROVED">>}

\* C19: every change of an existing car's status is PENDING -> APPROVED,
\* PENDING -> REJECTED, APPROVED -> SOLD or SOLD -> APPROVED.
C19_CarStatusEdges ==
    [][\A c \in DOMAIN cars :
          cars'[c].status # cars[c].status
             => <<cars[c].status, cars'[c].status>> \in CarEdges]_vars

\* the value of the is_company_owned field: true as a JSON boolean or as
\* the text of a form field
IsSet(flag) == flag \in {"true", "'true'"}

\* with F(flag) telling whether a submission counts as company-owned: a
\* submission to a dealership in business that is not company-owned succeeds
\* for every actor and is saved PENDING with seller = the submitter; a
\* company-owned one succeeds exactly for a DEALERSHIP_ADMIN of the target
\* dealership, is saved APPROVED with is_company_owned true, and is refused
\* (403) to everyone else
SubmissionOutcome(F(_)) ==
    \A u \in UserIds : \A d \in Dealerships : \A flag \in CompanyOwnedInputs :
        LET n == NewCar(u, d, flag) IN
        /\ ~F(flag) =>
              /\ car_createResp(u, d, flag) = Created201
              /\ n.status = "PENDING" /\ n.seller = u /\ n.dealership = d
              /\ ~n.is_company_owned
        /\ F(flag) =>
              /\ car_createResp(u, d, flag) = Created201 <=> IsDealershipAdminOf(u, d)
              /\ ~IsDealershipAdminOf(u, d) => car_createResp(u, d, flag) = Forbidden403
              /\ n.status = "APPROVED" /\ n.is_company_owned /\ n.dealership = d

\* a step that changes the number of cars adds the one row of a submission
\* that succeeds
SubmissionAddsOneCar ==
    Len(cars') # Len(cars) =>
        \E u \in UserIds : \E d \in Dealerships : \E flag \in CompanyOwnedInputs :
            /\ car_createResp(u, d, flag) = Created201
            /\ cars' = Append(cars, NewCar(u, d, flag))

\* C20: a car submitted without is_company_owned (the field absent or false)
\* is created PENDING with seller = the submitter, for any target dealership;
\* a car submitted with is_company_owned (the field true) is created APPROVED
\* and company-owned only for a DEALERSHIP_ADMIN of the target dealership, and
\* is refused as unauthorized to everyone else, with no car created.
C20_CarSubmission ==
    /\ []SubmissionOutcome(IsSet)
    /\ [][SubmissionAddsOneCar]_vars

\* the same statement with a submission counted as company-owned when the
\* handler's test of the field is true (holds under SpecListing)
CarSubmissionAsTested ==
    /\ []SubmissionOutcome(Truthy)
    /\ [][SubmissionAddsOneCar]_vars

\* C21: a step that adds a purchase sets the status of its car to SOLD and
\* leaves is_for_sale and is_for_rent (and every other car) as they were; a
\* step that makes or keeps a car SOLD without adding a purchase and changes
\* the car (mark_sold) sets status SOLD and both flags false; a step that
\* marks a purchase FAILED, or returns a SOLD car to APPROVED (mark_failed),
\* changes only the status of that car.
C21_SoldFlags ==
    [][/\ Len(purchases') > Len(purchases) =>
             cars' = [cars EXCEPT ![purchases'[Len(purchases')].car].status = "SOLD"]
       /\ \A c \in DOMAIN cars :
             (Len(purchases') = Len(purchases) /\ cars'[c] # cars[c]
                 /\ cars'[c].status = "SOLD")
                => cars' = [cars EXCEPT ![c].status = "SOLD",
                                        ![c].is_for_sale = FALSE,
                                        ![c].is_for_rent = FALSE]
       /\ \A p \in 1..Len(purchases) :
             (purchases[p].payment_status # "FAILED" /\ purchases'[p].payment_status = "FAILED")
                => cars' = [cars EXCEPT ![purchases[p].car].status = "APPROVED"]
       /\ \A c \in DOMAIN cars :
             (cars[c].status = "SOLD" /\ cars'[c].status = "APPROVED")
                => cars' = [cars EXCEPT ![c].status = "APPROVED"]]_vars

\* C21 witness: a car sold by a purchase, still flagged for sale and for
\* rent, next to a car sold by mark_sold with both flags cleared
C21_SoldBothWays ==
    \E c \in DOMAIN cars : \E k \in DOMAIN cars :
        /\ cars[c].status = "SOLD" /\ HasPurchase(c)
        /\ cars[c].is_for_sale /\ cars[c].is_for_rent
        /\ cars[k].status = "SOLD" /\ ~HasPurchase(k)
        /\ ~cars[k].is_for_sale /\ ~cars[k].is_for_rent

\* C22: every user has one of the three roles, and a user's dealership is
\* set only if the user's role is DEALERSHIP_ADMIN.
C22_DealershipOnlyForAdmins ==
    \A u \in UserIds :
        /\ Role(u) \in {"USER", "DEALERSHIP_ADMIN", "SUPER_ADMIN"}
        /\ users[u].dealership # None => Role(u) = "DEALERSHIP_ADMIN"

\* C23: promote succeeds only for a SUPER_ADMIN naming a stored user and an
\* existing DealershipCompany; a step that changes a user's role is such a
\* promote and sets the target's role to DEALERSHIP_ADMIN and its dealership
\* to the named company, changing no other user.
C23_RoleChangesByPromotion ==
    /\ [](\A u \in UserIds : \A target \in UserRefs : \A d \in PromoteDealershipInputs :
            /\ Succeeded(promoteResp(ModelsNamesFlat, u, target, d))
                  => /\ Role(u) = "SUPER_ADMIN" /\ target \in UserIds
                     /\ d # None /\ DealershipExists(d)
            /\ Role(u) # "SUPER_ADMIN"
                  => promoteResp(ModelsNamesFlat, u, target, d) = Forbidden403)
    /\ [][\A target \in UserIds :
            users'[target].role # users[target].role
               => \E u \in UserIds : \E d \in PromoteDealershipInputs :
                     /\ promoteResp(ModelsNamesFlat, u, target, d) = Ok200
                     /\ users' = [users EXCEPT ![target] =
                                    [role |-> "DEALERSHIP_ADMIN", dealership |-> d]]]_vars

\* C23 witness: u1 promoted to admin of D2, while the promotions of u2 by an
\* admin, without a dealership id and to a dealership without a row fail
C23_Promoted ==
    /\ users["u1"] = [role |-> "DEALERSHIP_ADMIN", dealership |-> "D2"]
    /\ users["u2"].role = "USER"
    /\ promoteResp(ModelsNamesFlat, "a1", "u2", "D1") = Forbidden403
    /\ promoteResp(ModelsNamesFlat, "sa", "u2", None).status = 400
    /\ promoteResp(ModelsNamesFlat, "sa", "u2", "D9") = NotFound404
    /\ promoteResp(ModelsNamesFlat, "sa", "u2", "D1") = Ok200

AdminTransitionOps == {"approve", "reject", "start_rental", "complete_rental"}

\* C25: approve, reject, start_rental and complete_rental succeed only for a
\* DEALERSHIP_ADMIN of the dealership of the booking's car; a USER, the renter
\* included, and a SUPER_ADMIN are refused in every status of the booking.
C25_AdminOnlyTransitions ==
    \A u \in UserIds : \A b \in 1..Len(bookings) : \A op \in AdminTransitionOps :
        /\ Succeeded(TransitionResp(op, u, b))
              => IsDealershipAdminOf(u, cars[bookings[b].car].dealership)
        /\ Role(u) \in {"USER", "SUPER_ADMIN"} => ~Succeeded(TransitionResp(op, u, b))

\* C25 witness: an APPROVED booking of a regular user, whose start_rental is
\* refused to the renter and to the superadmin and open to the car's admin
C25_RenterAndSuperRefused ==
    \E b \in 1..Len(bookings) : \E a \in UserIds :
        /\ bookings[b].status = "APPROVED" /\ Role(bookings[b].user) = "USER"
        /\ start_rentalResp(bookings[b].user, b) = Forbidden403
        /\ start_rentalResp("sa", b) = Forbidden403
        /\ start_rentalResp(a, b) = Ok200

C27_ErrorsLeaveNoTrace ==
    [][ /\ inspections' # inspections =>
              \/ \E u \in UserIds : \E c \in CarRefs : \E notes \in NotesInputs :
                    /\ Succeeded(inspection_createResp(u, c, notes))
                    /\ inspections' = SavedInspection(get_or_create(c), u, c, notes)
              \/ \E u \in UserIds : \E i \in DOMAIN inspections :
                    /\ Succeeded(approve_inspectionResp(u, i))
                    /\ inspections' = [inspections EXCEPT ![i].approved = TRUE]
        /\ cars' # cars =>
              \E u \in UserIds : \E c \in DOMAIN cars :
                  Succeeded(car_approveResp(u, c)) \/ Succeeded(car_rejectResp(u, c))
      ]_vars

\* the rows a refused create leaves behind: nobody inspected, nothing noted
C27_BlankInspectionStored ==
    \E i \in DOMAIN inspections : inspections[i] = BlankInspection(inspections[i].car)

EndAfterStart == BadRequest400("end date must be after start date")

\* C28: createBooking and check_availability both refuse a range whose end
\* is not after its start, before the conflict check is evaluated: for every
\* car a request may name and every pair of parsed dates with end <= start,
\* each of the two answers with the end-after-start error (create on a car
\* that is approved and for rent, the test create makes before it parses).
C28_EndAfterStartFirst ==
    \A u \in UserIds : \A c \in DOMAIN cars : \A d \in DateRequests :
        (d[1].fmt = "ymd" /\ d[2].fmt = "ymd" /\ d[2].day <= d[1].day) =>
            /\ (cars[c].is_for_rent /\ cars[c].status = "APPROVED") =>
                  createResp(DateClauses, u, c, d[1], d[2]) = EndAfterStart
            /\ check_availabilityResp(DateClauses, c, d[1], d[2]) = EndAfterStart

\* the half of C28 that create alone carries
CreateRefusesEndNotAfterStart ==
    \A u \in UserIds : \A c \in DOMAIN cars : \A d \in DateRequests :
        (d[1].fmt = "ymd" /\ d[2].fmt = "ymd" /\ d[2].day <= d[1].day
         /\ cars[c].is_for_rent /\ cars[c].status = "APPROVED") =>
            \A K \in {DateClauses, DateClausesSep} :
                createResp(K, u, c, d[1], d[2]) = EndAfterStart

\* check_availability on a range with end <= start, the filter's keywords
\* read as field lookups: an answer about availability, not a refusal
AvailabilityOfEmptyRange ==
    \A c \in DOMAIN cars : \A d \in DateRequests :
        (d[1].fmt = "ymd" /\ d[2].fmt = "ymd" /\ d[2].day <= d[1].day) =>
            check_availabilityResp(DateClausesSep, c, d[1], d[2]).status = 200

BookingStatuses == {"PENDING", "APPROVED", "ACTIVE", "COMPLETED", "CANCELLED"}

\* the status words in the text of an error: the words of the fixed text,
\* and the status an f-string wrote into it
StatusesNamed(resp) ==
    (CASE resp.kind = "Can only start rentals with APPROVED status" -> {"APPROVED"}
       [] resp.kind = "Can only complete rentals with ACTIVE status" -> {"ACTIVE"}
       [] resp.kind = "Can only cancel PENDING or APPROVED bookings" -> {"PENDING", "APPROVED"}
       [] OTHER -> {})
    \cup ({resp.names} \cap BookingStatuses)

BookingOps == AdminTransitionOps \cup {"cancel"}

ReviewRefusalNamesStatus ==
    \A u \in UserIds : \A b \in 1..Len(bookings) : \A op \in {"approve", "reject"} :
        TransitionResp(op, u, b).status = 400
            => bookings[b].status \in StatusesNamed(TransitionResp(op, u, b))

\* every refusal of a transition for the booking's status is a 400
RefusalIsBadRequest ==
    \A u \in UserIds : \A b \in 1..Len(bookings) : \A op \in BookingOps :
        (/\ TransitionResp(op, u, b).status \notin {403, 404}
         /\ \A s \in BookingStatuses : <<op, bookings[b].status, s>> \notin BookingEdges)
            => TransitionResp(op, u, b).status = 400

Ymd(day) == [fmt |-> "ymd", day |-> day]

Ended == {"CANCELLED", "COMPLETED"}

\* the range of booking b is free again: create for it is answered 201 for
\* every user, and check_availability reports the car available
RangeFree(b) ==
    /\ \A u \in UserIds :
          createResp(DateClausesSep, u, bookings[b].car,
                     Ymd(bookings[b].start_date), Ymd(bookings[b].end_date)) = Created201
    /\ check_availabilityResp(DateClausesSep, bookings[b].car,
                              Ymd(bookings[b].start_date), Ymd(bookings[b].end_date))
          = R(200, "available")

C31_PaidCarIsSold ==
    \A p \in 1..Len(purchases) :
        purchases[p].payment_status = "PAID" => cars[purchases[p].car].status = "SOLD"

\* Car.objects.filter(status='APPROVED', is_for_sale=True), without the
\* optional filters of the query string
available_for_sale == {c \in DOMAIN cars : cars[c].status = "APPROVED" /\ cars[c].is_for_sale}

\* C32: in every reachable state every car listed as available for sale
\* (APPROVED and is_for_sale) can be purchased: create of a purchase for it
\* is answered 201 for every authenticated user.
C32_ListedCarCanBeBought ==
    \A c \in available_for_sale : \A u \in UserIds : purchase_createResp(u, c) = Created201

\* a listed car without a purchase row can be bought by every user
ListedCarWithoutPurchaseCanBeBought ==
    \A c \in available_for_sale : \A u \in UserIds :
        ~HasPurchase(c) => purchase_createResp(u, c) = Created201

\* C33: mark_sold succeeds only for a DEALERSHIP_ADMIN of the car's
\* dealership or a SUPER_ADMIN; a USER is refused in every reachable state,
\* also a USER whose dealership field equals the car's dealership.
C33_MarkSoldAdminsOnly ==
    \A u \in UserIds : \A c \in DOMAIN cars :
        /\ Succeeded(mark_soldResp(u, c))
              => \/ IsDealershipAdminOf(u, cars[c].dealership)
                 \/ Role(u) = "SUPER_ADMIN"
        /\ Role(u) = "USER" => ~Succeeded(mark_soldResp(u, c))

\* a USER whose dealership differs from the car's is refused by mark_sold
MarkSoldRefusesOtherUsers ==
    \A u \in UserIds : \A c \in DOMAIN cars :
        (Role(u) = "USER" /\ users[u].dealership # cars[c].dealership)
            => ~Succeeded(mark_soldResp(u, c))

HasBooking(c) == \E b \in 1..Len(bookings) : bookings[b].car = c

\* C34: in every reachable state every car with a booking or a purchase is
\* APPROVED or SOLD (a PENDING or REJECTED car has neither), and no step
\* takes a REJECTED car to APPROVED.
C34_DealtCarsWereApproved ==
    /\ [](\A c \in DOMAIN cars :
            (HasBooking(c) \/ HasPurchase(c)) => cars[c].status \in {"APPROVED", "SOLD"})
    /\ [][\A c \in DOMAIN cars :
            cars[c].status = "REJECTED" => cars'[c].status # "APPROVED"]_vars

\* C34 witness: a car with a booking and a failed purchase, back to APPROVED,
\* next to a REJECTED car that has neither
C34_DealtAndRejected ==
    \E c \in DOMAIN cars : \E r \in DOMAIN cars :
        /\ HasBooking(c)
        /\ \E p \in 1..Len(purchases) :
              purchases[p].car = c /\ purchases[p].payment_status = "FAILED"
        /\ cars[c].status = "APPROVED"
        /\ cars[r].status = "REJECTED"
        /\ ~HasBooking(r) /\ ~HasPurchase(r)

\* C35: no car ever has status RENTED, and a step that changes the status
\* of a booking (approve and start_rental among them) leaves the status and
\* the is_for_rent and is_for_sale flags of the booked car as they are.
C35_NeverRented ==
    /\ [](\A c \in DOMAIN cars : cars[c].status # "RENTED")
    /\ [][\A b \in 1..Len(bookings) :
            bookings'[b].status # bookings[b].status
                => /\ cars'[bookings[b].car].status = cars[bookings[b].car].status
                   /\ cars'[bookings[b].car].is_for_rent = cars[bookings[b].car].is_for_rent
                   /\ cars'[bookings[b].car].is_for_sale = cars[bookings[b].car].is_for_sale
         ]_vars

\* C35 witness: a rental under way on a car that is still APPROVED, for rent
\* and for sale
C35_ActiveRentalOfListedCar ==
    \E b \in 1..Len(bookings) :
        /\ bookings[b].status = "ACTIVE"
        /\ cars[bookings[b].car].status = "APPROVED"
        /\ cars[bookings[b].car].is_for_rent
        /\ cars[bookings[b].car].is_for_sale

\* the step changes neither a booking nor a user, and of the cars only their
\* status and their flags
OnlyCarListingChanges ==
    /\ bookings' = bookings
    /\ users' = users
    /\ DOMAIN cars' = DOMAIN cars
    /\ \A c \in DOMAIN cars :
          [cars'[c] EXCEPT !.status = cars[c].status,
                           !.is_for_rent = cars[c].is_for_rent,
                           !.is_for_sale = cars[c].is_for_sale] = cars[c]

\* C36: the answer of approve, reject, start_rental, complete_rental and
\* cancel depends on the booking's status and the actor, not on the status or
\* the flags of the car: two states that differ only in the status and flags
\* of cars give every such request the same answer; and a step that changes
\* a car's status or flags (create of a purchase and mark_sold among them)
\* leaves every booking unchanged.
C36_TransitionsIgnoreCarStatus ==
    [][/\ OnlyCarListingChanges =>
             \A u \in UserIds : \A b \in 1..Len(bookings) : \A op \in BookingOps :
                 (TransitionResp(op, u, b))' = TransitionResp(op, u, b)
       /\ (\E c \in DOMAIN cars :
              \/ cars'[c].status # cars[c].status
              \/ cars'[c].is_for_rent # cars[c].is_for_rent
              \/ cars'[c].is_for_sale # cars[c].is_for_sale)
             => bookings' = bookings
      ]_vars

\* C36 witness: a PENDING booking of a car that has been sold and delisted,
\* which the car's admin may still approve
C36_SoldCarBookingApprovable ==
    \E b \in 1..Len(bookings) : \E a \in UserIds :
        /\ bookings[b].status = "PENDING"
        /\ cars[bookings[b].car].status = "SOLD"
        /\ ~cars[bookings[b].car].is_for_rent
        /\ approveResp(a, b) = Ok200

\* a rental started on a car that was bought in the meantime
SoldCarRentalStarted ==
    \E b \in 1..Len(bookings) :
        /\ bookings[b].status = "ACTIVE"
        /\ cars[bookings[b].car].status = "SOLD"
        /\ HasPurchase(bookings[b].car)

Available == R(200, "available")

SuperAdmins == {u \in UserIds : Role(u) = "SUPER_ADMIN"}

NobodyLeftToReview ==
    /\ SuperAdmins = {}
    /\ \A u \in UserIds : \A r \in 1..Len(registrations) :
          /\ registration_approveResp(ModelsNamesFlat, u, r) = Forbidden403
          /\ registration_rejectResp(ModelsNamesFlat, u, r) = Forbidden403
    /\ \A u \in UserIds : \A target \in UserIds : \A d \in PromoteDealershipInputs :
          promoteResp(ModelsNamesFlat, u, target, d) = Forbidden403

====
